---- MODULE Spec2Model ----
(***************************************************************************)
(* Definedness, liveness and phi-requirement analyses of                   *)
(* src/analysis/function_analysis.cpp, over a control-flow graph of basic  *)
(* blocks.  The graph, the parameter list and the scope resolver are the   *)
(* inputs; the DefinednessAnalysis / PhiAnalysis constructors and the      *)
(* query methods are the operations.                                       *)
(***************************************************************************)
EXTENDS Integers, Sequences, FiniteSets, TLC

\* ---------------------------------------------------------------- bounds
NumBlocks == 3
MaxSucc == 2

Blocks == 0 .. (NumBlocks - 1)
Names == {"x", "y"}
\* the empty std::string / a null AST pointer
NoName == ""

VARIABLES
    successors,     \* CFGBlock::successors, per block, in order
    predecessors,   \* CFGBlock::predecessors, per block, in order
    body,           \* CFGBlock::body, per block: the statements (AST nodes)
    arguments,      \* the AST_arguments* handed to the analyses
    globals,        \* the names for which ScopeInfo::refersToGlobal is true
    results,        \* DefinednessAnalysis::results (the engine's states)
    q,              \* the fixed-point engine's worklist
    defined,        \* DefinednessAnalysis::defined
    required_phis,  \* PhiAnalysis::required_phis
    pc,             \* position inside the constructors / "done"
    ret,            \* the last query and what it returned
    queries,        \* the number of queries answered
    assertion       \* the assertion that aborted the process, or "none"

vars == <<successors, predecessors, body, arguments, globals, results, q,
          defined, required_phis, pc, ret, queries, assertion>>

\* ---------------------------------------------------------------- helpers
Range(s) == {s[i] : i \in 1 .. Len(s)}

Put(m, k, v) == [n \in (DOMAIN m) \cup {k} |-> IF n = k THEN v ELSE m[n]]

EmptyMap == [n \in {} |-> "Undefined"]

\* ------------------------------------------------------------ syntax nodes
\* A statement is a record [type, id, value, targets, names]:
\*   Expr        value   : the name the expression loads (NoName: a constant)
\*   Assign      targets : the targets in order; value: the name the right
\*                         hand side loads (NoName: a constant)
\*   FunctionDef / ClassDef   id : the declared name
\*   Import      names   : the aliases, each [name, asname]
\* A target is [type, id, elts]: Name(id), Attribute / Subscript (on the
\* object named id), Tuple(elts).
Node(t, i, v, ts, ns) == [type |-> t, id |-> i, value |-> v, targets |-> ts, names |-> ns]

Target(t, i, es) == [type |-> t, id |-> i, elts |-> es]

NameT(n) == Target("Name", n, <<>>)

Expr(n) == Node("Expr", NoName, n, <<>>, <<>>)

Assign(ts, v) == Node("Assign", NoName, v, ts, <<>>)

FunctionDef(n) == Node("FunctionDef", n, NoName, <<>>, <<>>)

ClassDef(n) == Node("ClassDef", n, NoName, <<>>, <<>>)

Import(n, a) == Node("Import", NoName, NoName, <<>>, <<[name |-> n, asname |-> a]>>)

\* ------------------------------------------------------ LivenessBBVisitor
LivenessBBVisitor == [loads |-> {}, stores |-> {}]

_doLoad(v, name) ==
    IF name \in v.stores THEN v ELSE [v EXCEPT !.loads = @ \cup {name}]

_doStore(v, name) ==
    IF name \in v.loads THEN v ELSE [v EXCEPT !.stores = @ \cup {name}]

\* The visit_* callbacks a statement's accept() delivers to a visitor whose
\* unhandled visit methods return false (NoopASTVisitor), in order: the right
\* hand side of an assignment before its targets, an attribute's or a
\* subscript's object as a Load, a tuple's elements in order.  An import has
\* no Name child and reaches none of the three callbacks.
RECURSIVE TargetEvents(_)
TargetEvents(t) ==
    IF t.type = "Name" THEN << <<"Store", t.id>> >>
    ELSE IF t.type \in {"Attribute", "Subscript"} THEN << <<"Load", t.id>> >>
    ELSE IF t.elts = <<>> THEN <<>>
    ELSE TargetEvents(Head(t.elts)) \o TargetEvents([t EXCEPT !.elts = Tail(@)])

RECURSIVE TargetsEvents(_)
TargetsEvents(ts) ==
    IF ts = <<>> THEN <<>> ELSE TargetEvents(Head(ts)) \o TargetsEvents(Tail(ts))

accept(node) ==
    IF node.type = "Expr"
    THEN IF node.value = NoName THEN <<>> ELSE << <<"Load", node.value>> >>
    ELSE IF node.type = "Assign"
    THEN (IF node.value = NoName THEN <<>> ELSE << <<"Load", node.value>> >>)
         \o TargetsEvents(node.targets)
    ELSE IF node.type = "FunctionDef" THEN << <<"functiondef", node.id>> >>
    ELSE IF node.type = "ClassDef" THEN << <<"classdef", node.id>> >>
    ELSE <<>>

\* visit_classdef, visit_functiondef, visit_name
LivenessVisit(v, ev) ==
    IF ev[1] = "Load" THEN _doLoad(v, ev[2]) ELSE _doStore(v, ev[2])

RECURSIVE LivenessVisitAll(_, _)
LivenessVisitAll(v, evs) ==
    IF evs = <<>> THEN v
    ELSE LivenessVisitAll(LivenessVisit(v, Head(evs)), Tail(evs))

RECURSIVE BodyEvents(_)
BodyEvents(stmts) ==
    IF stmts = <<>> THEN <<>> ELSE accept(Head(stmts)) \o BodyEvents(Tail(stmts))

\* lines 98-101: a fresh visitor run over thisblock->body
VisitBlock(b) == LivenessVisitAll(LivenessBBVisitor, BodyEvents(body[b]))

\* ---------------------------------------------- LivenessAnalysis::isLiveAtEnd
RECURSIVE LiveLoop(_, _, _)
LiveLoop(name, queue, visited) ==
    IF queue = <<>> THEN FALSE
    ELSE LET thisblock == Head(queue)
             rest == Tail(queue)
         IN IF thisblock \in visited THEN LiveLoop(name, rest, visited)
            ELSE LET visitor == VisitBlock(thisblock)
                 IN IF name \in visitor.loads THEN TRUE
                    ELSE IF name \notin visitor.stores
                    THEN LiveLoop(name, rest \o successors[thisblock],
                                  visited \cup {thisblock})
                    ELSE LiveLoop(name, rest, visited \cup {thisblock})

\* isLiveAtEnd with the queried block marked visited before the traversal
isLiveAtEnd_self(name, block) ==
    IF Len(successors[block]) = 0 THEN FALSE
    ELSE LiveLoop(name, successors[block], {block})

isLiveAtEnd(name, block) ==
    IF Len(successors[block]) = 0 THEN FALSE
    ELSE LiveLoop(name, successors[block], {})

\* -------------------------------------------------- DefinednessBBAnalyzer
\* merge taking the incoming value
merge_from(from, into) == from

merge(from, into) ==
    IF from = "PotentiallyDefined" \/ into = "PotentiallyDefined"
    THEN "PotentiallyDefined"
    ELSE "Defined"

\* mergeBlank keeping the value it is given
mergeBlank_keeps(into) == into

mergeBlank(into) == "PotentiallyDefined"

\* the assert()s of merge and mergeBlank
mergeAsserts(from, into) == from # "Undefined" /\ into # "Undefined"

mergeBlankAsserts(into) == into # "Undefined"

\* ----------------------------------------------------- DefinednessVisitor
\* A visit returns the map and the node as the visit leaves them.
\* _doSet storing the enum's first value
_doSet_undefined(state, s) == Put(state, s, "Undefined")

_doSet(state, s) == Put(state, s, "Defined")

RECURSIVE _doSetAST(_, _)
_doSetAST(state, t) ==
    IF t.type = "Name" THEN _doSet(state, t.id)
    ELSE IF t.type = "Tuple"
    THEN IF t.elts = <<>> THEN state
         ELSE _doSetAST(_doSetAST(state, Head(t.elts)), [t EXCEPT !.elts = Tail(@)])
    ELSE state

RECURSIVE _doSetTargets(_, _)
_doSetTargets(state, ts) ==
    IF ts = <<>> THEN state
    ELSE _doSetTargets(_doSetAST(state, Head(ts)), Tail(ts))

\* `std::string &name = alias->name; if (alias->asname.size()) name = alias->asname;`
\* name is a reference to the node's field: the assignment writes the node.
visit_alias(alias) ==
    IF alias.asname # NoName THEN [alias EXCEPT !.name = alias.asname] ELSE alias

RECURSIVE visit_import_names(_, _, _)
visit_import_names(state, names, i) ==
    IF i > Len(names) THEN [state |-> state, names |-> names]
    ELSE LET alias == visit_alias(names[i])
         IN visit_import_names(_doSet(state, alias.name),
                               [names EXCEPT ![i] = alias], i + 1)

visit_import(state, node) ==
    LET r == visit_import_names(state, node.names, 1)
    IN [state |-> r.state, node |-> [node EXCEPT !.names = r.names]]

visit_assign(state, node) ==
    [state |-> _doSetTargets(state, node.targets), node |-> node]

visit_functiondef(state, node) ==
    [state |-> _doSet(state, node.id), node |-> node]

visit_classdef(state, node) ==
    [state |-> _doSet(state, node.id), node |-> node]

RECURSIVE _doSetNames(_, _)
_doSetNames(state, ns) ==
    IF ns = <<>> THEN state ELSE _doSetNames(_doSet(state, Head(ns)), Tail(ns))

visit_arguments(state, node) ==
    LET s1 == IF node.kwarg # NoName THEN _doSet(state, node.kwarg) ELSE state
        s2 == IF node.vararg # NoName THEN _doSet(s1, node.vararg) ELSE s1
    IN _doSetNames(s2, node.args)

DefinednessVisit(state, node) ==
    IF node.type = "Import" THEN visit_import(state, node)
    ELSE IF node.type = "Assign" THEN visit_assign(state, node)
    ELSE IF node.type = "FunctionDef" THEN visit_functiondef(state, node)
    ELSE IF node.type = "ClassDef" THEN visit_classdef(state, node)
    ELSE [state |-> state, node |-> node]

RECURSIVE processBody(_, _, _)
processBody(state, stmts, i) ==
    IF i > Len(stmts) THEN [state |-> state, body |-> stmts]
    ELSE LET r == DefinednessVisit(state, stmts[i])
         IN processBody(r.state, [stmts EXCEPT ![i] = r.node], i + 1)

\* DefinednessBBAnalyzer::processBB: the map at the block's end and the
\* block's statements as the visit leaves them
processBB(starting, block) ==
    LET r == processBody(starting, body[block], 1)
    IN IF block = 0 /\ arguments.present
       THEN [r EXCEPT !.state = visit_arguments(r.state, arguments)]
       ELSE r

\* ------------------------------------------------------ computeFixedPoint
\* The generic forward engine (analysis/fpc.h): a block's map at its end is
\* fed into each successor's entry map.  The first map to reach a block is
\* copied; afterwards a name present on both sides goes through merge and a
\* name present on one side only through mergeBlank.  A successor whose
\* entry map changed is put on the worklist.
MergeInto(ending, next) ==
    [n \in (DOMAIN ending) \cup (DOMAIN next) |->
        IF n \in DOMAIN ending /\ n \in DOMAIN next THEN merge(ending[n], next[n])
        ELSE IF n \in DOMAIN ending THEN mergeBlank(ending[n])
        ELSE mergeBlank(next[n])]

MergeAsserts(ending, next) ==
    /\ \A n \in (DOMAIN ending) \cap (DOMAIN next) : mergeAsserts(ending[n], next[n])
    /\ \A n \in (DOMAIN ending) \ (DOMAIN next) : mergeBlankAsserts(ending[n])
    /\ \A n \in (DOMAIN next) \ (DOMAIN ending) : mergeBlankAsserts(next[n])

RECURSIVE Propagate(_, _, _, _, _)
Propagate(st, wl, ok, ending, succs) ==
    IF succs = <<>> THEN [states |-> st, q |-> wl, ok |-> ok]
    ELSE LET next_block == Head(succs)
         IN IF next_block \notin DOMAIN st
            THEN Propagate(Put(st, next_block, ending), wl \cup {next_block},
                           ok, ending, Tail(succs))
            ELSE LET next == st[next_block]
                     merged == MergeInto(ending, next)
                 IN Propagate([st EXCEPT ![next_block] = merged],
                              IF merged # next THEN wl \cup {next_block} ELSE wl,
                              ok /\ MergeAsserts(ending, next),
                              ending, Tail(succs))

\* ------------------------------------------------------------------ inputs
NoArguments == [present |-> FALSE, kwarg |-> NoName, vararg |-> NoName, args |-> <<>>]

Arguments(kw, va, as) == [present |-> TRUE, kwarg |-> kw, vararg |-> va, args |-> as]

RECURSIVE SeqsUpTo(_, _)
SeqsUpTo(S, n) ==
    IF n = 0 THEN {<<>>}
    ELSE LET shorter == SeqsUpTo(S, n - 1)
         IN shorter \cup {Append(s, e) : s \in shorter, e \in S}

Distinct(s) == \A i, j \in 1 .. Len(s) : i # j => s[i] # s[j]

\* a block's successor list: none (a return), one (a jump), two (a branch)
SuccLists(B) == {s \in SeqsUpTo(B, MaxSucc) : Distinct(s)}

Preds(succ, b) == {p \in Blocks : b \in Range(succ[p])}

RECURSIVE Sorted(_)
Sorted(S) ==
    IF S = {} THEN <<>>
    ELSE LET m == CHOOSE e \in S : \A o \in S : e <= o
         IN <<m>> \o Sorted(S \ {m})

Rotate(s, k) == [i \in 1 .. Len(s) |-> s[((i - 1 + k) % Len(s)) + 1]]

\* connectTo() appends to both lists, so predecessors[b] holds exactly the
\* blocks that have b as a successor.
IndexOrder(succ) == [b \in Blocks |-> Sorted(Preds(succ, b))]

AnyFirst(succ) ==
    {[b \in Blocks |-> Rotate(IndexOrder(succ)[b], k[b])] :
        k \in {f \in [Blocks -> 0 .. (NumBlocks - 1)] :
                  \A b \in Blocks : f[b] < Len(IndexOrder(succ)[b]) \/ f[b] = 0}}

RECURSIVE ReachableFrom(_, _)
ReachableFrom(succ, S) ==
    LET T == S \cup UNION {Range(succ[b]) : b \in S}
    IN IF T = S THEN S ELSE ReachableFrom(succ, T)

Input(succ, pred, bd, args, gl) ==
    [successors |-> succ, predecessors |-> pred, body |-> bd,
     arguments |-> args, globals |-> gl]

\* Functions of SmallBlocks blocks (the other blocks are empty and not
\* connected) with every statement form, any parameter list, any scope and
\* any predecessor at the head of a predecessor list.
SmallBlocks == 2

Small == 0 .. (SmallBlocks - 1)

RichBodies ==
    { <<>>,
      <<Expr("x")>>,
      <<Assign(<<NameT("x")>>, NoName)>>,
      <<Expr("x"), FunctionDef("x")>>,
      <<ClassDef("x"), Expr("x")>>,
      <<Import("x", NoName)>>,
      <<Import("y", "x")>>,
      <<Assign(<<Target("Tuple", NoName, <<NameT("x"), Target("Attribute", "y", <<>>)>>)>>, NoName)>> }

ScopeChoices ==
    { <<NoArguments, {}>>,
      <<NoArguments, {"x"}>>,
      <<Arguments(NoName, "y", <<"x">>), {}>> }

Pad(f, v) == [b \in Blocks |-> IF b \in DOMAIN f THEN f[b] ELSE v]

SmallInputs ==
    UNION { { Input(Pad(succ, <<>>), pred, Pad(bd, <<>>), sc[1], sc[2]) :
                pred \in AnyFirst(Pad(succ, <<>>)),
                bd \in [Small -> RichBodies],
                sc \in ScopeChoices } :
            succ \in [Small -> SuccLists(Small)] }

\* Functions of NumBlocks blocks, each reachable from the entry block 0 and
\* connected in index order, with reads, assignments and imports of x.
PlainBodies ==
    { <<>>,
      <<Expr("x")>>,
      <<Assign(<<NameT("x")>>, NoName)>>,
      <<Import("y", "x")>> }

Graphs == {succ \in [Blocks -> SuccLists(Blocks)] : ReachableFrom(succ, {0}) = Blocks}

FullInputs ==
    { Input(succ, IndexOrder(succ), bd, NoArguments, {}) :
        succ \in Graphs, bd \in [Blocks -> PlainBodies] }

Inputs == SmallInputs \cup FullInputs

MaxQueries == 1

NoRet == [op |-> "none", name |-> NoName, block |-> 0, val |-> FALSE]

Init ==
    /\ \E in \in Inputs :
        /\ successors = in.successors
        /\ predecessors = in.predecessors
        /\ body = in.body
        /\ arguments = in.arguments
        /\ globals = in.globals
    /\ results = [b \in {0} |-> EmptyMap]
    /\ q = {0}
    /\ defined = [b \in {} |-> {}]
    /\ required_phis = [b \in {} |-> {}]
    /\ pc = "fpc"
    /\ ret = NoRet
    /\ queries = 0
    /\ assertion = "none"

\* ------------------------------------------------------------- operations
\* One iteration of the engine's loop: take a block off the worklist, run
\* processBB on a copy of its entry map, feed the result to its successors.
FixedPointStep ==
    /\ pc = "fpc" /\ assertion = "none"
    /\ \E block \in q :
        LET r == processBB(results[block], block)
            p == Propagate(results, q \ {block}, TRUE, r.state, successors[block])
        IN /\ body' = [body EXCEPT ![block] = r.body]
           /\ results' = p.states
           /\ q' = p.q
           /\ assertion' = IF p.ok THEN "none" ELSE "merge"
    /\ UNCHANGED <<successors, predecessors, arguments, globals, defined,
                   required_phis, pc, ret, queries>>

refersToGlobal(name) == name \in globals

\* the loop without its refersToGlobal test
required_defined_all(map) == DOMAIN map

\* lines 231-239: the names of one block's map that are not global
required_defined(map) == {n \in DOMAIN map : ~refersToGlobal(n)}

\* DefinednessAnalysis::DefinednessAnalysis, after computeFixedPoint returned
DefinednessAnalysis ==
    /\ pc = "fpc" /\ assertion = "none" /\ q = {}
    /\ defined' = [b \in DOMAIN results |-> required_defined(results[b])]
    /\ pc' = "phi"
    /\ UNCHANGED <<successors, predecessors, body, arguments, globals, results,
                   q, required_phis, ret, queries, assertion>>

\* results[block] / defined[block] / required_phis[block]: operator[] of an
\* unordered_map yields an empty value for a key that was never inserted
isDefinedAt(name, block) ==
    IF block \notin DOMAIN results THEN "Undefined"
    ELSE IF name \notin DOMAIN results[block] THEN "Undefined"
    ELSE results[block][name]

getDefinedNamesAt(block) ==
    IF block \in DOMAIN defined THEN defined[block] ELSE {}

\* lines 260-271: the names one block with two or more predecessors requires
required_phi(block) ==
    {n \in getDefinedNamesAt(block) : isLiveAtEnd(n, predecessors[block][1])}

\* PhiAnalysis::PhiAnalysis, after its definedness member is constructed
PhiAnalysis ==
    /\ pc = "phi" /\ assertion = "none"
    /\ required_phis' =
          [block \in {b \in Blocks : Len(predecessors[b]) >= 2} |->
              required_phi(block)]
    /\ pc' = "done"
    /\ UNCHANGED <<successors, predecessors, body, arguments, globals, results,
                   q, defined, ret, queries, assertion>>

requiredAt(block) ==
    IF block \in DOMAIN required_phis THEN required_phis[block] ELSE {}

getAllRequiredAfter(block) ==
    IF Len(successors[block]) = 0 THEN {} ELSE requiredAt(successors[block][1])

getAllDefinedAt(block) == getDefinedNamesAt(block)

isRequired(name, block) == name \in requiredAt(block)

\* isRequiredAfter with getAllRequiredAfter's test of the successor count
isRequiredAfter_any(name, block) ==
    IF Len(successors[block]) = 0 THEN FALSE
    ELSE isRequired(name, successors[block][1])

isRequiredAfter(name, block) ==
    IF Len(successors[block]) # 1 THEN FALSE
    ELSE isRequired(name, successors[block][1])

\* the two assertions of isPotentiallyUndefinedAfter
isPotentiallyUndefinedAfterAsserts(name, block) ==
    /\ Len(successors[block]) > 0
    /\ isDefinedAt(name, successors[block][1]) # "Undefined"

isPotentiallyUndefinedAfter(name, block) ==
    isDefinedAt(name, successors[block][1]) = "PotentiallyDefined"

Returned(op, name, block, val) ==
    /\ ret' = [op |-> op, name |-> name, block |-> block, val |-> val]
    /\ queries' = queries + 1
    /\ UNCHANGED <<successors, predecessors, body, arguments, globals, results,
                   q, defined, required_phis, pc, assertion>>

QueryIsLiveAtEnd ==
    /\ pc = "done" /\ assertion = "none" /\ queries < MaxQueries
    /\ \E name \in Names, block \in Blocks :
        Returned("isLiveAtEnd", name, block, isLiveAtEnd(name, block))

QueryIsDefinedAt ==
    /\ pc = "done" /\ assertion = "none" /\ queries < MaxQueries
    /\ \E name \in Names, block \in Blocks :
        Returned("isDefinedAt", name, block, isDefinedAt(name, block))

QueryGetDefinedNamesAt ==
    /\ pc = "done" /\ assertion = "none" /\ queries < MaxQueries
    /\ \E block \in Blocks :
        Returned("getDefinedNamesAt", NoName, block, getDefinedNamesAt(block))

QueryGetAllDefinedAt ==
    /\ pc = "done" /\ assertion = "none" /\ queries < MaxQueries
    /\ \E block \in Blocks :
        Returned("getAllDefinedAt", NoName, block, getAllDefinedAt(block))

QueryGetAllRequiredAfter ==
    /\ pc = "done" /\ assertion = "none" /\ queries < MaxQueries
    /\ \E block \in Blocks :
        Returned("getAllRequiredAfter", NoName, block, getAllRequiredAfter(block))

QueryIsRequired ==
    /\ pc = "done" /\ assertion = "none" /\ queries < MaxQueries
    /\ \E name \in Names, block \in Blocks :
        Returned("isRequired", name, block, isRequired(name, block))

QueryIsRequiredAfter ==
    /\ pc = "done" /\ assertion = "none" /\ queries < MaxQueries
    /\ \E name \in Names, block \in Blocks :
        Returned("isRequiredAfter", name, block, isRequiredAfter(name, block))

QueryIsPotentiallyUndefinedAfter ==
    /\ pc = "done" /\ assertion = "none" /\ queries < MaxQueries
    /\ \E name \in Names, block \in Blocks :
        IF isPotentiallyUndefinedAfterAsserts(name, block)
        THEN Returned("isPotentiallyUndefinedAfter", name, block,
                      isPotentiallyUndefinedAfter(name, block))
        ELSE /\ assertion' = "isPotentiallyUndefinedAfter"
             /\ queries' = queries + 1
             /\ UNCHANGED <<successors, predecessors, body, arguments, globals,
                            results, q, defined, required_phis, pc, ret>>

Next ==
    \/ FixedPointStep
    \/ DefinednessAnalysis
    \/ PhiAnalysis
    \/ QueryIsLiveAtEnd
    \/ QueryIsDefinedAt
    \/ QueryGetDefinedNamesAt
    \/ QueryGetAllDefinedAt
    \/ QueryGetAllRequiredAfter
    \/ QueryIsRequired
    \/ QueryIsRequiredAfter
    \/ QueryIsPotentiallyUndefinedAfter

Spec == Init /\ [][Next]_vars

\* ================================================================= claims
\* What the statements of a block do to a name, read off the syntax: the
\* reads and writes in source order.  An import writes the name it binds
\* (the alias if there is one, the imported name otherwise).
RECURSIVE TargetAccesses(_)
TargetAccesses(t) ==
    IF t.type = "Name" THEN << <<"W", t.id>> >>
    ELSE IF t.type = "Tuple"
    THEN IF t.elts = <<>> THEN <<>>
         ELSE TargetAccesses(t.elts[1]) \o TargetAccesses([t EXCEPT !.elts = Tail(@)])
    ELSE << <<"R", t.id>> >>

RECURSIVE Flatten(_)
Flatten(ss) == IF ss = <<>> THEN <<>> ELSE Head(ss) \o Flatten(Tail(ss))

Bound(alias) == IF alias.asname # NoName THEN alias.asname ELSE alias.name

StmtAccesses(st) ==
    IF st.type = "Expr" THEN (IF st.value = NoName THEN <<>> ELSE << <<"R", st.value>> >>)
    ELSE IF st.type = "Assign"
    THEN (IF st.value = NoName THEN <<>> ELSE << <<"R", st.value>> >>)
         \o Flatten([i \in 1 .. Len(st.targets) |-> TargetAccesses(st.targets[i])])
    ELSE IF st.type \in {"FunctionDef", "ClassDef"} THEN << <<"W", st.id>> >>
    ELSE IF st.type = "Import"
    THEN [i \in 1 .. Len(st.names) |-> <<"W", Bound(st.names[i])>>]
    ELSE <<>>

BlockAccesses(b) == Flatten([i \in 1 .. Len(body[b]) |-> StmtAccesses(body[b][i])])

\* the block's statements write n
WritesIn(n, b) == \E i \in 1 .. Len(BlockAccesses(b)) : BlockAccesses(b)[i] = <<"W", n>>

\* the parameter list writes n
ParameterWrites(n) ==
    /\ arguments.present
    /\ n # NoName
    /\ n \in {arguments.kwarg, arguments.vararg} \cup Range(arguments.args)

\* n is written while block b runs
Writes(n, b) == WritesIn(n, b) \/ (b = 0 /\ ParameterWrites(n))

\* the first access to n in block b, "R", "W" or "none"
FirstAccess(n, b) ==
    LET acc == BlockAccesses(b)
        at == {i \in 1 .. Len(acc) : acc[i][2] = n}
    IN IF at = {} THEN "none"
       ELSE acc[CHOOSE i \in at : \A j \in at : i <= j][1]

RECURSIVE Closure(_, _)
\* the blocks reached from the blocks of S along edges that leave a block of Through
Closure(S, Through) ==
    LET T == S \cup UNION {Range(successors[b]) : b \in S \cap Through}
    IN IF T = S THEN S ELSE Closure(T, Through)

Reachable == Closure({0}, Blocks)

\* the entry of B is reached by a path from the entry on which n is not written
UnwrittenPath(n, B) == B \in Closure({0}, {b \in Blocks : ~Writes(n, b)})

\* the entry of B is reached by a path from the entry on which n is written
WrittenPath(n, B) ==
    B \in Closure(UNION {Range(successors[b]) : b \in {w \in Reachable : Writes(n, w)}},
                  Blocks)

Definedness(n, B) ==
    IF ~UnwrittenPath(n, B) THEN "Defined"
    ELSE IF WrittenPath(n, B) THEN "PotentiallyDefined"
    ELSE "Undefined"

\* the state the DefinednessAnalysis constructor returns in; no later
\* operation writes results or defined
Constructed == pc = "phi"

\* the state the PhiAnalysis constructor returns in; the queries write
\* nothing but what they return
PhiConstructed == pc = "done" /\ queries = 0

\* C1: once DefinednessAnalysis is constructed, isDefinedAt(n, B) of a block B
\* reachable from block 0 is Defined if n is written on every path from the
\* entry to B's entry, PotentiallyDefined if it is written on some but not
\* all of them, and Undefined if it is written on none.
C1_LatticeCorrect ==
    /\ Constructed =>
          \A n \in Names, B \in Reachable : isDefinedAt(n, B) = Definedness(n, B)
    /\ (ret.op = "isDefinedAt" /\ ret.block \in Reachable) =>
          ret.val = Definedness(ret.name, ret.block)

\* a block on a cycle for which a name is written on some paths only
C1_Witness ==
    /\ ret.op = "isDefinedAt"
    /\ ret.val = "PotentiallyDefined"
    /\ ret.block \in Closure(Range(successors[ret.block]), Blocks)
    /\ \E b \in Blocks : isDefinedAt(ret.name, b) = "Defined"

\* C3: a name the scope resolver reports as global is in no getDefinedNamesAt,
\* getAllDefinedAt or required-phi result, even when the function assigns it.
C3_GlobalExclusion ==
    /\ PhiConstructed => \A n \in globals, B \in Blocks :
          /\ n \notin getDefinedNamesAt(B)
          /\ n \notin getAllDefinedAt(B)
          /\ ~isRequired(n, B)
          /\ n \notin getAllRequiredAfter(B)
    /\ ret.op \in {"getDefinedNamesAt", "getAllDefinedAt", "getAllRequiredAfter"} =>
          ret.val \cap globals = {}
    /\ (ret.op \in {"isRequired", "isRequiredAfter"} /\ ret.name \in globals) =>
          ret.val = FALSE

\* a global name that a block with two predecessors has in its map and that
\* is read afterwards
C3_Witness ==
    /\ ret.op = "getDefinedNamesAt"
    /\ Len(predecessors[ret.block]) >= 2
    /\ \E n \in globals :
          /\ isDefinedAt(n, ret.block) # "Undefined"
          /\ isLiveAtEnd(n, predecessors[ret.block][1])

\* C4: for a block B with exactly one successor S, isRequiredAfter(n, B) is
\* isRequired(n, S); for a block with no or several successors it is false.
C4_RequiredAfter ==
    ret.op = "isRequiredAfter" =>
        ret.val = IF Len(successors[ret.block]) = 1
                  THEN ret.name \in requiredAt(successors[ret.block][1])
                  ELSE FALSE

C4_Witness == ret.op = "isRequiredAfter" /\ ret.val = TRUE

\* a read-first block is reached from B's successors along blocks of Through
ReadReached(n, B, Through) ==
    \E r \in Closure(Range(successors[B]), Through) : FirstAccess(n, r) = "R"

\* C2: isLiveAtEnd(n, B) is true exactly when a forward path from a successor
\* of B ends at a block that reads n before writing it and no earlier block
\* of the path writes n without first reading it.
C2_LivenessIff ==
    ret.op = "isLiveAtEnd" =>
        ret.val = ReadReached(ret.name, ret.block,
                              {b \in Blocks : FirstAccess(ret.name, b) # "W"})

\* the first access to n in block b is the binding of an import
ImportFirst(n, b) ==
    /\ FirstAccess(n, b) = "W"
    /\ LET at == {i \in 1 .. Len(body[b]) :
                     \E k \in 1 .. Len(StmtAccesses(body[b][i])) :
                         StmtAccesses(body[b][i])[k][2] = n}
       IN body[b][CHOOSE i \in at : \A j \in at : i <= j].type = "Import"

\* C7: an import is a write for the liveness oracle: a read of n that is
\* reachable only through a block that binds n by an import, without reading
\* n first, does not make n live.
C7_ImportStopsTraversal ==
    (ret.op = "isLiveAtEnd" /\ ret.val = TRUE) =>
        ReadReached(ret.name, ret.block,
                    {b \in Blocks : ~ImportFirst(ret.name, b)})

\* C8: the analyses and the queries leave the graph as it was: topology,
\* statement lists and every field of every syntax node.
C8_GraphUnchanged ==
    [][/\ successors' = successors
       /\ predecessors' = predecessors
       /\ body' = body]_vars

Levels == {"Defined", "PotentiallyDefined"}

\* C9: no map of the fixed-point computation holds Undefined, so the
\* assertions of merge and mergeBlank hold; merge gives PotentiallyDefined
\* when an argument is PotentiallyDefined and Defined otherwise, mergeBlank
\* gives PotentiallyDefined.
C9_NoUndefinedStored ==
    /\ \A b \in DOMAIN results : \A n \in DOMAIN results[b] : results[b][n] \in Levels
    /\ pc = "fpc" =>
          \A b \in q : LET ending == processBB(results[b], b).state
                       IN \A n \in DOMAIN ending : ending[n] \in Levels
    /\ assertion # "merge"
    /\ \A x, y \in Levels :
          merge(x, y) = IF "PotentiallyDefined" \in {x, y}
                        THEN "PotentiallyDefined" ELSE "Defined"
    /\ \A x \in Levels : mergeBlank(x) = "PotentiallyDefined"

\* the computation is under way and a merge has produced a value
C9_Witness ==
    /\ pc = "fpc" /\ q # {}
    /\ \E b \in DOMAIN results : \E n \in DOMAIN results[b] :
          results[b][n] = "PotentiallyDefined"
    /\ \E b \in DOMAIN results : \E n \in DOMAIN results[b] :
          results[b][n] = "Defined"

\* C6: for a block M with two or more predecessors and a name n of
\* getDefinedNamesAt(M), isLiveAtEnd(n, p) is the same for every predecessor
\* p of M, so predecessor 0 stands for all of them.
C6_PredecessorsAgree ==
    PhiConstructed =>
        \A M \in Blocks : Len(predecessors[M]) >= 2 =>
            \A n \in getDefinedNamesAt(M) : \A p1, p2 \in Range(predecessors[M]) :
                isLiveAtEnd(n, p1) = isLiveAtEnd(n, p2)

\* every predecessor of M has M as its only successor
SoleSuccessor(M) == \A p \in Range(predecessors[M]) : successors[p] = <<M>>

\* C6 as amended: the predecessors agree, and the required-phi set is the
\* one any predecessor gives, when M is the only successor of each of them.
C6_SoleSuccessorPredecessorsAgree ==
    PhiConstructed =>
        \A M \in Blocks : (Len(predecessors[M]) >= 2 /\ SoleSuccessor(M)) =>
            \A p \in Range(predecessors[M]) :
                /\ requiredAt(M) = {n \in getDefinedNamesAt(M) : isLiveAtEnd(n, p)}
                /\ \A n \in getDefinedNamesAt(M) :
                      isLiveAtEnd(n, p) = isLiveAtEnd(n, predecessors[M][1])

C6_Witness ==
    /\ PhiConstructed
    /\ \E M \in Blocks :
          /\ Len(predecessors[M]) >= 2
          /\ SoleSuccessor(M)
          /\ requiredAt(M) # {}
          /\ requiredAt(M) # getDefinedNamesAt(M)

\* C10: n is in getAllRequiredAfter(B) exactly when isRequiredAfter(n, B);
\* getAllRequiredAfter is empty for a block with no or several successors.
C10_QueriesAgree ==
    PhiConstructed =>
        \A B \in Blocks :
            /\ \A n \in Names : (n \in getAllRequiredAfter(B)) = isRequiredAfter(n, B)
            /\ Len(successors[B]) # 1 => getAllRequiredAfter(B) = {}

\* ------------------------------------------------------------ termination
\* a block's map only gains names or moves a name from Defined to
\* PotentiallyDefined
Monotone ==
    \A b \in DOMAIN results :
        /\ b \in DOMAIN results'
        /\ \A n \in DOMAIN results[b] :
              /\ n \in DOMAIN results'[b]
              /\ \/ results'[b][n] = results[b][n]
                 \/ results[b][n] = "Defined" /\ results'[b][n] = "PotentiallyDefined"

\* applying the transfer of any block and merging into any successor
\* changes nothing
FixedPoint ==
    /\ q = {}
    /\ \A b \in DOMAIN results : \A s \in Range(successors[b]) :
          /\ s \in DOMAIN results
          /\ MergeInto(processBB(results[b], b).state, results[s]) = results[s]

\* where the maps stand in the lattice: a reached block counts one, a
\* Defined name one more, a PotentiallyDefined name two more
Entries(levels) ==
    {e \in Blocks \X Names :
        /\ e[1] \in DOMAIN results
        /\ e[2] \in DOMAIN results[e[1]]
        /\ results[e[1]][e[2]] \in levels}

Height ==
    Cardinality(DOMAIN results) + Cardinality(Entries(Levels))
        + Cardinality(Entries({"PotentiallyDefined"}))

MaxHeight == NumBlocks * (1 + 2 * Cardinality(Names))

\* an iteration of the engine either moves a map up or shortens the worklist
Progress ==
    \/ Height' > Height
    \/ Height' = Height /\ Cardinality(q') < Cardinality(q)

\* C5: the fixed-point computation terminates on every graph, loops
\* included, in whatever order blocks are taken: a block's map only gains a
\* name or moves one from Defined to PotentiallyDefined, so every iteration
\* moves a map up (at most MaxHeight times in all) or shortens the worklist,
\* and when the worklist is empty no transfer and merge changes a result.
C5_Terminates ==
    [][IF pc = "fpc"
       THEN /\ Monotone
            /\ pc' = "fpc" => Progress
            /\ Height' <= MaxHeight
            /\ q' = {} => FixedPoint'
       ELSE results' = results]_vars

\* a fixed point of a graph with a cycle, reached after a map moved up
C5_Witness ==
    /\ pc = "phi"
    /\ FixedPoint
    /\ \E b \in Blocks : b \in Closure(Range(successors[b]), Blocks)
                         /\ \E n \in Names : isDefinedAt(n, b) = "PotentiallyDefined"

====
